---- MODULE Spec2Model ----
(***************************************************************************)
(* Model of src/excel_to_brevo_json.py: convert_excel_to_json reads a      *)
(* spreadsheet into a pandas DataFrame, resolves the Brand / Product /     *)
(* Article code / Discount columns, normalises them, groups the rows by    *)
(* brand and writes one JSON document.                                     *)
(*                                                                         *)
(* Library semantics are those of pandas 1.3 - 2.x, the versions the       *)
(* code's own `dtype == object` tests for text columns are written for.    *)
(*                                                                         *)
(* Strings are sequences of one-character strings, so that strip(),        *)
(* lower(), endswith() and string comparison are computed, not assumed.    *)
(* A number is held in tenths (-126 is -12.6).                             *)
(***************************************************************************)
EXTENDS Integers, Sequences, FiniteSets, TLC

VARIABLES
    pc,               \* position inside convert_excel_to_json
    result,           \* "running", "ok", or the exception that ended the run
    excel,            \* the spreadsheet: [header, rows], never modified
    args,             \* [image_base_url, sort_products_by]
    columns,          \* df.columns
    data,             \* df rows: sequence of [idx, cells]; cells align with columns
    brand_col, product_desc_col, article_code_col, discount_col,
    brands,           \* brands_sorted
    out_file,         \* "absent", "empty" (opened for writing), "partial", "complete"
    call              \* a single call of a nested pure function (find_col, build_image)

vars == <<pc, result, excel, args, columns, data, brand_col, product_desc_col,
          article_code_col, discount_col, brands, out_file, call>>

pipeVars == <<pc, result, excel, args, columns, data, brand_col, product_desc_col,
              article_code_col, discount_col, brands, out_file>>

----------------------------------------------------------------------------
(* Bounds                                                                  *)

MaxCols == 3
MaxRows == 3
MaxCells == 4
MaxFindCols == 3

----------------------------------------------------------------------------
(* Characters and strings                                                  *)

Upper == <<"A","B","C","D","E","F","G","H","I","J","K","L","M",
           "N","O","P","Q","R","S","T","U","V","W","X","Y","Z">>

LowerC == <<"a","b","c","d","e","f","g","h","i","j","k","l","m",
            "n","o","p","q","r","s","t","u","v","w","x","y","z">>

\* the characters used, in code point order
Ascii == <<" ", "%", "+", "-", ".", "/", "0", "1", "2", "3", "4", "5", "6", "7", "8", "9", ":">>
         \o Upper \o LowerC

Ord(c) == CHOOSE i \in 1..Len(Ascii) : Ascii[i] = c

IsSpace(c) == c = " "

\* str.lower()
lower(s) ==
    [i \in 1..Len(s) |->
        IF \E k \in 1..Len(Upper) : Upper[k] = s[i]
        THEN LowerC[CHOOSE k \in 1..Len(Upper) : Upper[k] = s[i]]
        ELSE s[i]]

RECURSIVE lstrip(_)
lstrip(s) == IF s # <<>> /\ IsSpace(Head(s)) THEN lstrip(Tail(s)) ELSE s

RECURSIVE rstrip(_)
rstrip(s) ==
    IF s # <<>> /\ IsSpace(s[Len(s)]) THEN rstrip(SubSeq(s, 1, Len(s) - 1)) ELSE s

\* str.strip()
strip(s) == rstrip(lstrip(s))

\* str.endswith(suffix)
endswith(s, suffix) ==
    /\ Len(suffix) <= Len(s)
    /\ SubSeq(s, Len(s) - Len(suffix) + 1, Len(s)) = suffix

\* Python's  a < b  on str: lexicographic by code point
RECURSIVE StrLess(_, _)
StrLess(a, b) ==
    IF b = <<>> THEN FALSE
    ELSE IF a = <<>> THEN TRUE
    ELSE IF Head(a) = Head(b) THEN StrLess(Tail(a), Tail(b))
    ELSE Ord(Head(a)) < Ord(Head(b))

\* None, and every other falsy name: a header is never the empty string
\* (read_excel names an empty header "Unnamed: n")
None == <<>>

----------------------------------------------------------------------------
(* Column names                                                            *)

N_Brand == <<"B","r","a","n","d">>
N_brand_sp == <<"b","r","a","n","d"," ">>
N_Products == <<"P","r","o","d","u","c","t","s">>
N_Product == <<"P","r","o","d","u","c","t">>
N_Product_name == <<"P","r","o","d","u","c","t"," ","n","a","m","e">>
N_Description == <<"D","e","s","c","r","i","p","t","i","o","n">>
N_Article_code_sp == <<"A","r","t","i","c","l","e"," ","c","o","d","e"," ">>
N_Article_code == <<"A","r","t","i","c","l","e"," ","c","o","d","e">>
N_Code == <<"C","o","d","e">>
N_SKU == <<"S","K","U">>
N_sku == <<"s","k","u">>
N_Discount_pct == <<"D","i","s","c","o","u","n","t"," ","%">>
N_Discountpct == <<"D","i","s","c","o","u","n","t","%">>
N_Discount == <<"D","i","s","c","o","u","n","t">>
N_DISCOUNT_pct == <<"D","I","S","C","O","U","N","T"," ","%">>
N_discount_pct == <<"d","i","s","c","o","u","n","t"," ","%">>
N_Image == <<"I","m","a","g","e">>

\* the default parameter values of convert_excel_to_json
DefaultBrandCol == N_Brand
DefaultProductDescCol == N_Products
DefaultArticleCodeCol == N_Article_code_sp
DefaultDiscountCol == N_Discount_pct

ProductFallbacks == <<N_Product, N_Product_name, N_Description>>
ArticleFallbacks == <<N_Article_code, N_Code, N_SKU>>
DiscountFallbacks == <<N_Discountpct, N_Discount, N_DISCOUNT_pct, N_discount_pct>>

----------------------------------------------------------------------------
(* find_col                                                                *)

\* name in df.columns
InColumns(name, cols) == \E i \in 1..Len(cols) : cols[i] = name

\* for c in df.columns: if str(c).strip().lower() == name.strip().lower(): return c
RECURSIVE FirstInsensitive(_, _)
FirstInsensitive(cols, name) ==
    IF cols = <<>> THEN None
    ELSE IF lower(strip(Head(cols))) = lower(strip(name)) THEN Head(cols)
    ELSE FirstInsensitive(Tail(cols), name)

RECURSIVE find_fallbacks(_, _)
find_fallbacks(cols, fallbacks) ==
    IF fallbacks = <<>> THEN None
    ELSE IF InColumns(Head(fallbacks), cols) THEN Head(fallbacks)
    ELSE IF FirstInsensitive(cols, Head(fallbacks)) # None
         THEN FirstInsensitive(cols, Head(fallbacks))
    ELSE find_fallbacks(cols, Tail(fallbacks))

\* a slip that tries the case/space-insensitive match of a fallback before its exact match
find_fallbacks_insensitive_first(cols, fallbacks) ==
    LET RECURSIVE go(_)
        go(fb) ==
            IF fb = <<>> THEN None
            ELSE IF FirstInsensitive(cols, Head(fb)) # None
                 THEN FirstInsensitive(cols, Head(fb))
            ELSE go(Tail(fb))
    IN go(fallbacks)

find_col_insensitive_first(cols, target_name, fallbacks) ==
    IF FirstInsensitive(cols, target_name) # None THEN FirstInsensitive(cols, target_name)
    ELSE find_fallbacks_insensitive_first(cols, fallbacks)

find_col(cols, target_name, fallbacks) ==
    IF InColumns(target_name, cols) THEN target_name
    ELSE IF FirstInsensitive(cols, target_name) # None
         THEN FirstInsensitive(cols, target_name)
    ELSE find_fallbacks(cols, fallbacks)

----------------------------------------------------------------------------
(* Cell values                                                             *)

NaN == [t |-> "NaN", s |-> <<>>, n |-> 0]       \* float nan: an empty cell
NA == [t |-> "NA", s |-> <<>>, n |-> 0]         \* pd.NA of the nullable Int64 dtype
NoneV == [t |-> "None", s |-> <<>>, n |-> 0]    \* Python None
Text(s) == [t |-> "str", s |-> s, n |-> 0]
Num(n) == [t |-> "num", s |-> <<>>, n |-> n]    \* a number read from a cell, in tenths
IntV(n) == [t |-> "int", s |-> <<>>, n |-> n]    \* an integer of the Int64 column

\* pd.isna(val)
isna(v) == v.t \in {"NaN", "NA", "None"}

Digits == <<"0","1","2","3","4","5","6","7","8","9">>

IsDigit(c) == \E k \in 1..10 : Digits[k] = c

DigitVal(c) == (CHOOSE k \in 1..10 : Digits[k] = c) - 1

RECURSIVE DigitsVal(_)
DigitsVal(s) == IF s = <<>> THEN 0 ELSE 10 * DigitsVal(SubSeq(s, 1, Len(s) - 1)) + DigitVal(s[Len(s)])

AllDigits(s) == s # <<>> /\ \A i \in 1..Len(s) : IsDigit(s[i])

\* unsigned decimal literal: digits, or digits "." digit; the value in tenths, -1 if unparseable
ParseUnsigned(s) ==
    IF AllDigits(s) THEN 10 * DigitsVal(s)
    ELSE IF /\ Len(s) >= 3
            /\ s[Len(s) - 1] = "."
            /\ IsDigit(s[Len(s)])
            /\ AllDigits(SubSeq(s, 1, Len(s) - 2))
         THEN 10 * DigitsVal(SubSeq(s, 1, Len(s) - 2)) + DigitVal(s[Len(s)])
    ELSE -1

\* pd.to_numeric(..., errors="coerce") on one cell
to_numeric(v) ==
    IF v.t = "num" THEN v
    ELSE IF v.t = "str" THEN
        LET signed == v.s # <<>> /\ Head(v.s) \in {"+", "-"}
            body == IF signed THEN Tail(v.s) ELSE v.s
            u == ParseUnsigned(body)
        IN IF u < 0 THEN NaN
           ELSE IF signed /\ Head(v.s) = "-" THEN Num(0 - u) ELSE Num(u)
    ELSE NaN

\* numpy round(0) of a number in tenths: to the nearest integer, halves to the even one
round0(n) ==
    LET q == n \div 10
        r == n % 10
    IN IF r < 5 THEN q
       ELSE IF r > 5 THEN q + 1
       ELSE IF q % 2 = 0 THEN q ELSE q + 1

abs(n) == IF n < 0 THEN 0 - n ELSE n

\* lines 53-59 on one cell: to_numeric, round(0), abs(), astype("Int64"), where(notna, None);
\* the where() leaves a missing value of the Int64 column as pd.NA
normalize_discount(v) ==
    LET x == to_numeric(v) IN IF x.t = "num" THEN IntV(abs(round0(x.n))) ELSE NA

\* str(val) of a cell of a text column; a missing cell prints as "nan"
Str(v) == IF v.t = "str" THEN v.s ELSE <<"n","a","n">>

\* line 50 on one cell: astype(str).str.strip()
normalize_brand(v) == Text(strip(Str(v)))

ImageExtensions ==
    { <<".","j","p","g">>, <<".","j","p","e","g">>, <<".","p","n","g">>, <<".","w","e","b","p">> }

\* a slip that tests the extension case-sensitively
build_image_case_sensitive(val, image_base_url) ==
    IF isna(val) THEN NoneV
    ELSE LET v == strip(Str(val)) IN
         IF v = <<>> THEN NoneV
         ELSE IF \E e \in ImageExtensions : endswith(v, e) THEN Text(image_base_url \o v)
         ELSE Text(image_base_url \o v \o <<".","j","p","g">>)

\* lines 65-73
build_image(val, image_base_url) ==
    IF isna(val) THEN NoneV
    ELSE LET v == strip(Str(val)) IN
         IF v = <<>> THEN NoneV
         ELSE IF \E e \in ImageExtensions : endswith(lower(v), e) THEN Text(image_base_url \o v)
         ELSE Text(image_base_url \o v \o <<".","j","p","g">>)

----------------------------------------------------------------------------
(* The DataFrame                                                           *)

\* position of a column label that occurs once
IndexOf(cols, name) == CHOOSE j \in 1..Len(cols) : cols[j] = name

CountOf(cols, name) == Cardinality({j \in 1..Len(cols) : cols[j] = name})

\* df[c].dtype == object: a column holding text (or None); a column with no rows is object
IsObject(d, j) == d = <<>> \/ \E r \in 1..Len(d) : d[r].cells[j].t \in {"str", "None"}

\* lines 40-43: the first object column other than the Brand column
RECURSIVE FirstObjectColumn(_, _, _, _)
FirstObjectColumn(cols, d, brand, j) ==
    IF j > Len(cols) THEN None
    ELSE IF cols[j] # brand /\ IsObject(d, j) THEN cols[j]
    ELSE FirstObjectColumn(cols, d, brand, j + 1)

\* lines 38-43
ResolveProduct(cols, d, brand) ==
    LET p == find_col(cols, DefaultProductDescCol, ProductFallbacks)
    IN IF p # None THEN p ELSE FirstObjectColumn(cols, d, brand, 1)

\* line 50: df[brand_col] = df[brand_col].astype(str).str.strip(), cell by cell
BrandNormalized(cols, d, brand) ==
    [r \in 1..Len(d) |->
        [d[r] EXCEPT !.cells = [@ EXCEPT ![IndexOf(cols, brand)] = normalize_brand(@)]]]

\* line 52 / line 64: the column was resolved and is (still) a column of df
HasColumn(cols, name) == name # None /\ InColumns(name, cols)

\* df.rename(columns={old: new}): every column labelled old
Renamed(cols, old, new) == [j \in 1..Len(cols) |-> IF cols[j] = old THEN new ELSE cols[j]]

\* lines 52-61
DiscountNormalized(cols, d, discount) ==
    IF HasColumn(cols, discount)
    THEN [columns |-> Renamed(cols, discount, N_Discount),
          data |-> [r \in 1..Len(d) |->
              [d[r] EXCEPT !.cells =
                  [@ EXCEPT ![IndexOf(cols, discount)] = normalize_discount(@)]]]]
    ELSE [columns |-> cols, data |-> d]

\* a slip that forgets the  and image_base_url  of line 64
ImageAdded_ignoring_base(cols, d, article, base) ==
    IF HasColumn(cols, article)
    THEN [columns |-> IF InColumns(N_Image, cols) THEN cols ELSE Append(cols, N_Image),
          data |-> [r \in 1..Len(d) |->
              [d[r] EXCEPT !.cells =
                  IF InColumns(N_Image, cols)
                  THEN [@ EXCEPT ![IndexOf(cols, N_Image)] =
                           build_image(d[r].cells[IndexOf(cols, article)], base)]
                  ELSE Append(@, build_image(d[r].cells[IndexOf(cols, article)], base))]]]
    ELSE [columns |-> cols, data |-> d]

\* df["Image"] = df[article].apply(build_image): replaces an existing "Image"
\* column in place, appends the column otherwise (line 74)
ImageAdded(cols, d, article, base) ==
    IF HasColumn(cols, article) /\ base # <<>>
    THEN LET a == IndexOf(cols, article)
             img(r) == build_image(d[r].cells[a], base)
         IN IF InColumns(N_Image, cols)
            THEN [columns |-> cols,
                  data |-> [r \in 1..Len(d) |->
                      [d[r] EXCEPT !.cells = [@ EXCEPT ![IndexOf(cols, N_Image)] = img(r)]]]]
            ELSE [columns |-> Append(cols, N_Image),
                  data |-> [r \in 1..Len(d) |-> [d[r] EXCEPT !.cells = Append(@, img(r))]]]
    ELSE [columns |-> cols, data |-> d]

----------------------------------------------------------------------------
(* Grouping and sorting                                                    *)

\* the key= of sort_values (line 83) on one cell of column j:
\* s.str.lower() gives NaN for a cell that is not a str
SortKey(d, j, v) ==
    IF IsObject(d, j) THEN (IF v.t = "str" THEN Text(lower(v.s)) ELSE NaN) ELSE v

KeyLess(a, b) == IF a.t = "str" THEN StrLess(a.s, b.s) ELSE a.n < b.n

\* the elements of a sequence of row positions that lie in S, in order
RECURSIVE Filter(_, _)
Filter(seq, S) ==
    IF seq = <<>> THEN <<>>
    ELSE IF Head(seq) \in S THEN <<Head(seq)>> \o Filter(Tail(seq), S)
    ELSE Filter(Tail(seq), S)

Permutations_of(seq) ==
    { [i \in 1..Len(seq) |-> seq[f[i]]] :
        f \in { g \in [1..Len(seq) -> 1..Len(seq)] :
                  \A i, k \in 1..Len(seq) : i # k => g[i] # g[k] } }

\* group.sort_values(by=sort_key, key=..., na_position="last"), default kind
\* "quicksort": ascending by key, rows without a key last in their original
\* order, rows with equal keys in an order the sort does not promise
SortValues(d, g, j) ==
    LET key(r) == SortKey(d, j, d[r].cells[j])
        HasKey == {r \in 1..Len(d) : ~isna(key(r))}
        NoKey == {r \in 1..Len(d) : isna(key(r))}
    IN { p \o Filter(g, NoKey) :
           p \in { q \in Permutations_of(Filter(g, HasKey)) :
                     \A i, k \in 1..Len(q) : i < k => ~KeyLess(key(q[k]), key(q[i])) } }

\* lines 80-87: the orders the rows g of one group can come out in
GroupSorted(cols, d, g, sort_key) ==
    IF InColumns(sort_key, cols) THEN SortValues(d, g, IndexOf(cols, sort_key)) ELSE {g}

\* a slip that keeps the first of several columns with one label
ToDict_first_wins(cols, cells, brand) ==
    [k \in {cols[j] : j \in {i \in 1..Len(cols) : cols[i] # brand}} |->
        cells[CHOOSE j \in 1..Len(cols) :
                 cols[j] = k /\ \A i \in 1..Len(cols) : cols[i] = k => j <= i]]

\* line 89: drop(columns=[brand_col]).to_dict(orient="records") on one row;
\* of several columns with one label the last one is kept
ToDict(cols, cells, brand) ==
    [k \in {cols[j] : j \in {i \in 1..Len(cols) : cols[i] # brand}} |->
        cells[CHOOSE j \in 1..Len(cols) :
                 cols[j] = k /\ \A i \in 1..Len(cols) : cols[i] = k => i <= j]]

Products(cols, d, order, brand) ==
    [i \in 1..Len(order) |->
        [idx |-> d[order[i]].idx, rec |-> ToDict(cols, d[order[i]].cells, brand)]]

\* the keys of df.groupby(brand_col, dropna=False) in its order: ascending, NaN last
GroupKeyLess(a, b) == IF isna(a) THEN FALSE ELSE IF isna(b) THEN TRUE ELSE StrLess(a.s, b.s)

RECURSIVE SortedKeys(_)
SortedKeys(S) ==
    IF S = {} THEN <<>>
    ELSE LET m == CHOOSE x \in S : \A y \in S \ {x} : GroupKeyLess(x, y)
         IN <<m>> \o SortedKeys(S \ {m})

GroupKeys(cols, d, brand) ==
    SortedKeys({ d[r].cells[IndexOf(cols, brand)] : r \in 1..Len(d) })

\* a slip that groups with dropna=True semantics on the "nan" text
GroupRows_dropping_nan(cols, d, brand, key) ==
    LET Member == {r \in 1..Len(d) :
                      d[r].cells[IndexOf(cols, brand)] = key /\ key # Text(<<"n","a","n">>)}
    IN Filter([r \in 1..Len(d) |-> r], Member)

\* the rows of one group, in the order of df
GroupRows(cols, d, brand, key) ==
    LET Member == {r \in 1..Len(d) : d[r].cells[IndexOf(cols, brand)] = key}
    IN Filter([r \in 1..Len(d) |-> r], Member)

\* line 92
BrandName(key) == IF isna(key) THEN [isnull |-> TRUE, s |-> <<>>] ELSE [isnull |-> FALSE, s |-> Str(key)]

\* lines 78-94: every list  brands  the loop can build
RECURSIVE BrandLists(_, _, _, _, _)
BrandLists(cols, d, brand, sort_key, keys) ==
    IF keys = <<>> THEN {<<>>}
    ELSE { <<[name |-> BrandName(Head(keys)), products |-> Products(cols, d, o, brand)]>> \o rest :
             o \in GroupSorted(cols, d, GroupRows(cols, d, brand, Head(keys)), sort_key),
             rest \in BrandLists(cols, d, brand, sort_key, Tail(keys)) }

\* the key of line 96, compared as Python compares the tuples
BrandLess(a, b) ==
    IF a.name.isnull # b.name.isnull THEN b.name.isnull
    ELSE StrLess(lower(a.name.s), lower(b.name.s))

\* sorted(brands, key=...): a stable sort
RECURSIVE InsertBrand(_, _)
InsertBrand(sorted, b) ==
    IF sorted = <<>> THEN <<b>>
    ELSE IF BrandLess(b, Head(sorted)) THEN <<b>> \o sorted
    ELSE <<Head(sorted)>> \o InsertBrand(Tail(sorted), b)

RECURSIVE SortedBrands(_)
SortedBrands(bs) ==
    IF bs = <<>> THEN <<>>
    ELSE InsertBrand(SortedBrands(SubSeq(bs, 1, Len(bs) - 1)), bs[Len(bs)])

\* json.dump raises TypeError on a value it cannot encode: pd.NA
Serializable(bs) ==
    \A g \in 1..Len(bs) : \A i \in 1..Len(bs[g].products) :
        \A k \in DOMAIN bs[g].products[i].rec : bs[g].products[i].rec[k].t # "NA"

----------------------------------------------------------------------------
(* The inputs: spreadsheets and arguments                                  *)

HeaderPool ==
    <<N_Brand, N_brand_sp, N_Products, N_Article_code_sp, N_Discount_pct, N_Discount, N_Image>>

\* the plain catalogue, modelled with up to MaxRows rows
LongHeaders == { <<N_Brand, N_Product>> }

Reverse(seq) == [i \in 1..Len(seq) |-> seq[Len(seq) + 1 - i]]

\* the header rows: up to MaxCols distinct names, in the pool's order or its
\* reverse, and the plain catalogue
Headers ==
    LET picks == { S \in SUBSET (1..Len(HeaderPool)) : Cardinality(S) \in 1..MaxCols }
        InOrder(S) == [i \in 1..Cardinality(S) |->
            HeaderPool[CHOOSE k \in S : Cardinality({m \in S : m < k}) = i - 1]]
    IN { InOrder(S) : S \in picks } \cup { Reverse(InOrder(S)) : S \in picks } \cup LongHeaders

\* the cells a column of that name holds in the modelled spreadsheets
CellPool(name) ==
    IF lower(strip(name)) = lower(N_Brand) THEN {NaN, Text(<<"z"," ">>), Text(<<"A">>)}
    ELSE IF name = N_Products THEN {NaN, Num(50), Text(<<"a">>), Text(<<"B">>)}
    ELSE IF name = N_Product THEN {NaN, Num(50), Text(<<"a">>)}
    ELSE IF name = N_Article_code_sp THEN {NaN, Text(<<" ","x">>)}
    ELSE IF name = N_Discount_pct THEN {Num(-126), Text(<<"7">>), Text(<<"n","/","a">>)}
    ELSE IF name = N_Discount THEN {Num(70), Text(<<"d">>)}
    ELSE {Text(<<"i">>)}

RECURSIVE RowPool(_)
RowPool(header) ==
    IF header = <<>> THEN {<<>>}
    ELSE { <<c>> \o r : c \in CellPool(Head(header)), r \in RowPool(Tail(header)) }

RowCounts(header) ==
    { n \in 0..MaxRows : n * Len(header) <= MaxCells \/ header \in LongHeaders }

\* the spreadsheets under one header: up to MaxCells cells, and the plain
\* catalogue with up to MaxRows rows
SheetsOf(h) ==
    { [header |-> h, rows |-> rows] :
        rows \in UNION { [1..n -> RowPool(h)] : n \in RowCounts(h) } }

BaseUrl == <<"u","/">>

Arguments ==
    { [image_base_url |-> BaseUrl, sort_products_by |-> None],
      [image_base_url |-> <<>>, sort_products_by |-> None],
      [image_base_url |-> BaseUrl, sort_products_by |-> N_Discount_pct] }

\* the arguments a sheet is run with: image_base_url is read only when an
\* Article code column is resolved (line 64), so the empty base URL is tried
\* on the sheets that have one; the plain catalogue is run with the defaults
ArgumentsOf(h) ==
    IF h \in LongHeaders
    THEN { [image_base_url |-> BaseUrl, sort_products_by |-> None] }
    ELSE IF find_col(h, DefaultArticleCodeCol, ArticleFallbacks) = None
    THEN { a \in Arguments : a.image_base_url = BaseUrl }
    ELSE Arguments

NoCall == [op |-> "none"]

----------------------------------------------------------------------------
(* convert_excel_to_json                                                   *)

\* line 17: df = pd.read_excel(excel_path); the index of df numbers the rows
Init ==
    /\ \E h \in Headers :
          /\ excel \in SheetsOf(h)
          /\ args \in ArgumentsOf(h)
    /\ columns = excel.header
    /\ data = [r \in 1..Len(excel.rows) |-> [idx |-> r, cells |-> excel.rows[r]]]
    /\ pc = "read"
    /\ result = "running"
    /\ brand_col = None
    /\ product_desc_col = None
    /\ article_code_col = None
    /\ discount_col = None
    /\ brands = <<>>
    /\ out_file = "absent"
    /\ call = NoCall

\* a slip that creates the output file before the columns are validated
BrandError_after_open ==
    /\ pc = "read"
    /\ find_col(columns, DefaultBrandCol, <<>>) = None
    /\ pc' = "done"
    /\ result' = "ValueError: Brand"
    /\ out_file' = "empty"
    /\ UNCHANGED <<excel, args, columns, data, brand_col, product_desc_col,
                   article_code_col, discount_col, brands, call>>

\* lines 34-36
BrandError ==
    /\ pc = "read"
    /\ find_col(columns, DefaultBrandCol, <<>>) = None
    /\ pc' = "done"
    /\ result' = "ValueError: Brand"
    /\ UNCHANGED <<excel, args, columns, data, brand_col, product_desc_col,
                   article_code_col, discount_col, brands, out_file, call>>

\* lines 34-45, no product description column
ProductError ==
    /\ pc = "read"
    /\ find_col(columns, DefaultBrandCol, <<>>) # None
    /\ ResolveProduct(columns, data, find_col(columns, DefaultBrandCol, <<>>)) = None
    /\ brand_col' = find_col(columns, DefaultBrandCol, <<>>)
    /\ pc' = "done"
    /\ result' = "ValueError: Product"
    /\ UNCHANGED <<excel, args, columns, data, product_desc_col,
                   article_code_col, discount_col, brands, out_file, call>>

\* lines 34-48
ResolveColumns ==
    /\ pc = "read"
    /\ find_col(columns, DefaultBrandCol, <<>>) # None
    /\ ResolveProduct(columns, data, find_col(columns, DefaultBrandCol, <<>>)) # None
    /\ brand_col' = find_col(columns, DefaultBrandCol, <<>>)
    /\ product_desc_col' = ResolveProduct(columns, data, brand_col')
    /\ article_code_col' = find_col(columns, DefaultArticleCodeCol, ArticleFallbacks)
    /\ discount_col' = find_col(columns, DefaultDiscountCol, DiscountFallbacks)
    /\ pc' = "resolved"
    /\ UNCHANGED <<excel, args, columns, data, result, brands, out_file, call>>

\* lines 50-74
Normalize ==
    /\ pc = "resolved"
    /\ LET d1 == BrandNormalized(columns, data, brand_col)
           df2 == DiscountNormalized(columns, d1, discount_col)
           df3 == ImageAdded(df2.columns, df2.data, article_code_col, args.image_base_url)
       IN /\ columns' = df3.columns
          /\ data' = df3.data
    /\ pc' = "normalized"
    /\ UNCHANGED <<excel, args, result, brand_col, product_desc_col,
                   article_code_col, discount_col, brands, out_file, call>>

\* line 76
sort_key == IF args.sort_products_by # None THEN args.sort_products_by ELSE product_desc_col

\* sort_values(by=label) raises ValueError when several columns carry the label
SortLabelAmbiguous == data # <<>> /\ CountOf(columns, sort_key) > 1

\* lines 76-97, sort_values raising
GroupAndSortError ==
    /\ pc = "normalized"
    /\ SortLabelAmbiguous
    /\ pc' = "done"
    /\ result' = "ValueError: label not unique"
    /\ UNCHANGED <<excel, args, columns, data, brand_col, product_desc_col,
                   article_code_col, discount_col, brands, out_file, call>>

\* lines 76-97
GroupAndSort ==
    /\ pc = "normalized"
    /\ ~SortLabelAmbiguous
    /\ \E bs \in BrandLists(columns, data, brand_col, sort_key,
                            GroupKeys(columns, data, brand_col)) :
           brands' = SortedBrands(bs)
    /\ pc' = "grouped"
    /\ UNCHANGED <<excel, args, columns, data, result, brand_col, product_desc_col,
                   article_code_col, discount_col, out_file, call>>

\* lines 99-100: mkdir, then open(output_json, "w") creates or truncates the file
OpenOutput ==
    /\ pc = "grouped"
    /\ out_file' = "empty"
    /\ pc' = "opened"
    /\ UNCHANGED <<excel, args, columns, data, result, brand_col, product_desc_col,
                   article_code_col, discount_col, brands, call>>

\* line 101
Dump ==
    /\ pc = "opened"
    /\ Serializable(brands)
    /\ out_file' = "complete"
    /\ result' = "ok"
    /\ pc' = "done"
    /\ UNCHANGED <<excel, args, columns, data, brand_col, product_desc_col,
                   article_code_col, discount_col, brands, call>>

\* line 101: json.dump writes the document piece by piece and raises TypeError
\* at the first pd.NA; what was written before stays in the file
DumpError ==
    /\ pc = "opened"
    /\ ~Serializable(brands)
    /\ out_file' = "partial"
    /\ result' = "TypeError: NAType is not JSON serializable"
    /\ pc' = "done"
    /\ UNCHANGED <<excel, args, columns, data, brand_col, product_desc_col,
                   article_code_col, discount_col, brands, call>>

Next ==
    \/ BrandError
    \/ ProductError
    \/ ResolveColumns
    \/ Normalize
    \/ GroupAndSortError
    \/ GroupAndSort
    \/ OpenOutput
    \/ Dump
    \/ DumpError

Spec == Init /\ [][Next]_vars

----------------------------------------------------------------------------
(* Single calls of the nested functions, on wider inputs than the sheets    *)

Idle ==
    /\ excel = [header |-> <<>>, rows |-> <<>>]
    /\ args = [image_base_url |-> BaseUrl, sort_products_by |-> None]
    /\ columns = <<>>
    /\ data = <<>>
    /\ pc = "idle"
    /\ result = "running"
    /\ brand_col = None
    /\ product_desc_col = None
    /\ article_code_col = None
    /\ discount_col = None
    /\ brands = <<>>
    /\ out_file = "absent"

FindPool ==
    { N_Discount_pct, N_discount_pct, N_DISCOUNT_pct, N_Discount, lower(N_Discount),
      N_Discountpct, N_Article_code_sp, N_Article_code, N_SKU, N_sku }

RECURSIVE DistinctSeqs(_, _)
DistinctSeqs(S, n) ==
    IF n = 0 THEN {<<>>}
    ELSE {<<>>} \cup UNION { { <<x>> \o t : t \in { u \in DistinctSeqs(S, n - 1) :
                                                      \A i \in 1..Len(u) : u[i] # x } }
                             : x \in S }

FindCalls ==
    { [target |-> DefaultBrandCol, fallbacks |-> <<>>],
      [target |-> DefaultArticleCodeCol, fallbacks |-> ArticleFallbacks],
      [target |-> DefaultDiscountCol, fallbacks |-> DiscountFallbacks],
      [target |-> N_SKU, fallbacks |-> <<N_Discount, N_Article_code>>] }

InitFind ==
    /\ Idle
    /\ \E h \in DistinctSeqs(FindPool, MaxFindCols) \ {<<>>}, c \in FindCalls :
         call = [op |-> "find_col", cols |-> h, target |-> c.target,
                 fallbacks |-> c.fallbacks, state |-> "called", ret |-> None]

\* lines 19-32
FindColReturn ==
    /\ call.op = "find_col"
    /\ call.state = "called"
    /\ call' = [call EXCEPT !.state = "returned",
                            !.ret = find_col(call.cols, call.target, call.fallbacks)]
    /\ UNCHANGED pipeVars

NextFind == FindColReturn

SpecFind == InitFind /\ [][NextFind]_vars

Spaces == { <<>>, <<" ">>, <<" ", " ">> }

Stems == { <<>>, <<"a">>, <<"a", ".", "b">>, <<"a", " ", "b">> }

Endings ==
    { <<>>, <<".","j","p","g">>, <<".","J","P","G">>, <<".","j","p","e","g">>,
      <<".","p","n","g">>, <<".","P","n","g">>, <<".","w","e","b","p">>,
      <<".","g","i","f">>, <<"j","p","g">>, <<".","j","p">>, <<".","j","p","g",".">> }

ArticleCodes ==
    {NaN} \cup { Text(a \o st \o e \o b) : a \in Spaces, st \in Stems, e \in Endings, b \in Spaces }

InitImage ==
    /\ Idle
    /\ \E v \in ArticleCodes, base \in {BaseUrl, <<"h">>} :
         call = [op |-> "build_image", val |-> v, base |-> base,
                 state |-> "called", ret |-> NoneV]

\* lines 64-74 on one cell: the guard of line 64 holds (the base URL is not empty)
BuildImageReturn ==
    /\ call.op = "build_image"
    /\ call.state = "called"
    /\ call.base # <<>>
    /\ call' = [call EXCEPT !.state = "returned", !.ret = build_image(call.val, call.base)]
    /\ UNCHANGED pipeVars

NextImage == BuildImageReturn

SpecImage == InitImage /\ [][NextImage]_vars

----------------------------------------------------------------------------
(* Vocabulary of the properties                                            *)

Norm(name) == lower(strip(name))

\* the cell of input row r under the header name (a header of the sheet)
InputCell(r, name) == excel.rows[r][IndexOf(excel.header, name)]

\* the positions <<group, product>> of the output document
Prods == { <<g, i>> \in (1..Len(brands)) \X (1..MaxRows + 1) : i <= Len(brands[g].products) }

Prod(q) == brands[q[1]].products[q[2]]

Succeeded == pc = "done" /\ result = "ok"

\* line 64 holds: the Image column is derived
ImageDerived == article_code_col # None /\ args.image_base_url # <<>>

ConfigError == result \in {"ValueError: Brand", "ValueError: Product"}

HasBrandHeader == \E j \in 1..Len(excel.header) : Norm(excel.header[j]) = Norm(N_Brand)

HasProductHeader ==
    \E j \in 1..Len(excel.header) :
        Norm(excel.header[j]) \in { Norm(N_Products), Norm(N_Product),
                                    Norm(N_Product_name), Norm(N_Description) }

\* a column other than the resolved Brand column that holds text (or has no rows)
HasTextColumn ==
    \E j \in 1..Len(excel.header) :
        /\ excel.header[j] # brand_col
        /\ excel.rows = <<>> \/ \E r \in 1..Len(excel.rows) : excel.rows[r][j].t = "str"

FatalConfiguration ==
    \/ ~HasBrandHeader
    \/ brand_col # None /\ ~HasProductHeader /\ ~HasTextColumn

----------------------------------------------------------------------------
\* C1: on every fatal configuration failure (Brand not resolvable, or
\* ProductDescription neither resolvable nor inferable) the run ends in an
\* error and the output file is never created or written; the file is touched
\* only after all column resolution has succeeded.
C1_FatalLeavesNoFile ==
    /\ (pc = "done" /\ FatalConfiguration) => (ConfigError /\ out_file = "absent")
    /\ ConfigError => out_file = "absent"
    /\ out_file # "absent" => (brand_col # None /\ product_desc_col # None /\ pc \in {"opened", "done"})

C1_Witness ==
    /\ pc = "done"
    /\ result = "ValueError: Product"
    /\ excel.rows # <<>>
    /\ out_file = "absent"

----------------------------------------------------------------------------
\* C2: find_col returns the first match in the order: canonical name exact;
\* first header equal to it after trim+lowercase; then per fallback in listed
\* order, the fallback exact, then the first header equal to it after
\* trim+lowercase; None only when nothing matches.
Candidates == <<call.target>> \o call.fallbacks

CandidateMatches(k) == \E j \in 1..Len(call.cols) : Norm(call.cols[j]) = Norm(Candidates[k])

C2_FindColPreference ==
    (call.op = "find_col" /\ call.state = "returned") =>
        IF \A k \in 1..Len(Candidates) : ~CandidateMatches(k)
        THEN call.ret = None
        ELSE LET k == CHOOSE m \in 1..Len(Candidates) :
                          CandidateMatches(m) /\ \A n \in 1..(m - 1) : ~CandidateMatches(n)
                 exact == \E j \in 1..Len(call.cols) : call.cols[j] = Candidates[k]
                 first == CHOOSE j \in 1..Len(call.cols) :
                              /\ Norm(call.cols[j]) = Norm(Candidates[k])
                              /\ \A i \in 1..(j - 1) : Norm(call.cols[i]) # Norm(Candidates[k])
             IN call.ret = IF exact THEN Candidates[k] ELSE call.cols[first]

\* a fallback is returned by its exact match although a case variant of it
\* stands earlier in the header
C2_Witness ==
    /\ call.op = "find_col"
    /\ call.state = "returned"
    /\ \E k \in 1..Len(call.fallbacks) : call.ret = call.fallbacks[k]
    /\ \E i, j \in 1..Len(call.cols) :
          /\ i < j
          /\ call.cols[j] = call.ret
          /\ call.cols[i] # call.ret
          /\ Norm(call.cols[i]) = Norm(call.ret)

----------------------------------------------------------------------------
\* C3: when the run succeeds every input row appears in exactly one Brand
\* Group's products list, and the number of products over all groups equals
\* the number of input rows (rows with a missing brand cell included).
C3_GroupingComplete ==
    Succeeded =>
        /\ \A r \in 1..Len(excel.rows) : Cardinality({ q \in Prods : Prod(q).idx = r }) = 1
        /\ Cardinality(Prods) = Len(excel.rows)

C3_Witness ==
    /\ Succeeded
    /\ Len(excel.rows) = MaxRows
    /\ Len(brands) >= 2
    /\ \E r \in 1..Len(excel.rows) : InputCell(r, brand_col) = NaN

----------------------------------------------------------------------------
\* the group holds a row whose Brand cell is missing in the sheet
GroupOfMissingBrand(g) ==
    \E i \in 1..Len(brands[g].products) : InputCell(brands[g].products[i].idx, brand_col) = NaN

\* C4 (as stated): every group whose brand is missing comes strictly after all
\* named groups, and the named groups are in ascending order of their
\* lowercased names: brands ["zeta", "Alpha", missing] give ["Alpha", "zeta", null].
C4_BrandOrder ==
    Succeeded =>
        \A g, h \in 1..Len(brands) :
            g < h =>
                /\ ~(GroupOfMissingBrand(g) /\ ~GroupOfMissingBrand(h))
                /\ (~GroupOfMissingBrand(g) /\ ~GroupOfMissingBrand(h))
                        => ~StrLess(lower(brands[h].name.s), lower(brands[g].name.s))

----------------------------------------------------------------------------
\* C5 (as stated): rows whose Brand cell is missing are grouped under a Brand
\* Group whose name is missing (JSON null), never under a literal string such
\* as "nan".
C5_MissingBrandStaysMissing ==
    Succeeded => \A g \in 1..Len(brands) : GroupOfMissingBrand(g) => brands[g].name.isnull

----------------------------------------------------------------------------
\* round(abs(toNumber(v))) of the claim, null when v is not a number
ExpectedDiscount(v) ==
    LET x == to_numeric(v) IN IF x.t = "num" THEN IntV(round0(abs(x.n))) ELSE NoneV

\* the sheet has no column named "Discount" besides the resolved Discount column
NoDiscountCollision == discount_col = N_Discount \/ ~InColumns(N_Discount, excel.header)

\* C6 (as stated): when the Discount column is resolved, the "Discount" field
\* of every row is round(abs(toNumber(v))) if the cell v is a number and null
\* (present) otherwise, and an unparseable cell never aborts the run.
C6_DiscountNormalized ==
    (pc = "done" /\ ~ConfigError /\ discount_col # None /\ NoDiscountCollision) =>
        /\ result = "ok"
        /\ \A q \in Prods :
              /\ N_Discount \in DOMAIN Prod(q).rec
              /\ Prod(q).rec[N_Discount] = ExpectedDiscount(InputCell(Prod(q).idx, discount_col))

----------------------------------------------------------------------------
\* the text without its leading and trailing blanks, described by what it is
IsTrimOf(t, s) ==
    /\ \E a, b \in 0..Len(s) :
          /\ a + Len(t) + b = Len(s)
          /\ \A i \in 1..Len(s) :
                IF i <= a \/ i > a + Len(t) THEN s[i] = " " ELSE s[i] = t[i - a]
    /\ t # <<>> => (t[1] # " " /\ t[Len(t)] # " ")

HasImageExtension(t) ==
    \E e \in ImageExtensions :
        /\ Len(e) <= Len(t)
        /\ \A i \in 1..Len(e) : lower(<<t[Len(t) - Len(e) + i]>>) = <<e[i]>>

\* C7: with the Article Code column resolved and a non-empty base URL: a
\* missing value or one empty after trimming gives Image = null; a trimmed
\* value whose lowercase form ends with .jpg, .jpeg, .png or .webp gives
\* baseUrl + trimmed; any other gives baseUrl + trimmed + ".jpg".
C7_ImageUrl ==
    (call.op = "build_image" /\ call.state = "returned") =>
        IF call.val.t # "str" \/ \A i \in 1..Len(call.val.s) : call.val.s[i] = " "
        THEN call.ret = NoneV
        ELSE /\ call.ret.t = "str"
             /\ \E n \in 1..Len(call.val.s) : \E a \in 1..(Len(call.val.s) - n + 1) :
                  LET t == SubSeq(call.val.s, a, a + n - 1)
                  IN /\ IsTrimOf(t, call.val.s)
                     /\ call.ret.s = IF HasImageExtension(t)
                                     THEN call.base \o t
                                     ELSE call.base \o t \o <<".","j","p","g">>

\* a padded code with an upper-case extension gets no second extension
C7_Witness ==
    /\ call.op = "build_image"
    /\ call.state = "returned"
    /\ call.val = Text(<<" ", "a", ".", "J", "P", "G", " ">>)
    /\ call.ret = Text(call.base \o <<"a", ".", "J", "P", "G">>)

----------------------------------------------------------------------------
\* C8 (as stated): every Product record keeps every original column of its
\* row with its original value, except that the Brand column is removed and
\* the resolved Discount column appears under the key "Discount"; no other
\* original column is dropped or overwritten, also when the table has a
\* column literally named "Discount" or "Image".
C8_OriginalColumnsKept ==
    Succeeded =>
        \A q \in Prods :
            /\ \A j \in 1..Len(excel.header) :
                  (excel.header[j] # brand_col /\ excel.header[j] # discount_col) =>
                      /\ excel.header[j] \in DOMAIN Prod(q).rec
                      /\ Prod(q).rec[excel.header[j]] = excel.rows[Prod(q).idx][j]
            /\ brand_col \notin DOMAIN Prod(q).rec
            /\ discount_col # None =>
                  /\ N_Discount \in DOMAIN Prod(q).rec
                  /\ Prod(q).rec[N_Discount] =
                         normalize_discount(InputCell(Prod(q).idx, discount_col))

----------------------------------------------------------------------------
\* the sheet has a column named "Discount" besides the resolved Discount column
DiscountCollision == discount_col # None /\ ~NoDiscountCollision

\* C8 (amended): every Product record keeps every original column of its row
\* with its original value, except that the Brand column is removed, the
\* resolved Discount column appears normalised under the key "Discount", a
\* derived Image replaces an original column named "Image", and of an original
\* "Discount" column and the renamed Discount column the one later in the
\* sheet is the one kept; a record has no other keys.
C8_Amended ==
    Succeeded =>
        \A q \in Prods :
            LET rec == Prod(q).rec
                row == excel.rows[Prod(q).idx]
                normalized == normalize_discount(InputCell(Prod(q).idx, discount_col))
            IN /\ \A j \in 1..Len(excel.header) :
                     LET h == excel.header[j] IN
                     (h # brand_col /\ h # discount_col) =>
                         /\ h \in DOMAIN rec
                         /\ rec[h] =
                              IF h = N_Image /\ ImageDerived
                              THEN build_image(InputCell(Prod(q).idx, article_code_col),
                                               args.image_base_url)
                              ELSE IF h = N_Discount /\ DiscountCollision
                                        /\ j < IndexOf(excel.header, discount_col)
                              THEN normalized
                              ELSE row[j]
               /\ (discount_col # None /\ ~DiscountCollision) =>
                     (N_Discount \in DOMAIN rec /\ rec[N_Discount] = normalized)
               /\ DOMAIN rec =
                     ({ excel.header[j] : j \in 1..Len(excel.header) } \ {brand_col, discount_col})
                        \cup (IF discount_col # None THEN {N_Discount} ELSE {})
                        \cup (IF ImageDerived THEN {N_Image} ELSE {})

\* a successful run that derives Image on a sheet with its own "Image" column
C8_Witness ==
    /\ Succeeded
    /\ Prods # {}
    /\ ImageDerived
    /\ InColumns(N_Image, excel.header)

----------------------------------------------------------------------------
\* the sort-key cell of a product, as the input sheet holds it
SortCell(q) == Prod(q).rec[sort_key]

----------------------------------------------------------------------------
====
